---- MODULE Spec2Model ----
(***************************************************************************)
(* Figma-Context-MCP: the get_figma_data tool call (FigmaMcpServer,        *)
(* FigmaService) and the multi-session SSE server of src/src/server.ts.    *)
(*                                                                         *)
(* A text is modelled as the sequence of its JSON lexemes (punctuation,    *)
(* quoted strings); insignificant white space, which JSON.stringify's      *)
(* indentation argument adds, is not a lexeme.                             *)
(***************************************************************************)
EXTENDS Integers, Sequences, FiniteSets, TLC

\* Number of get_figma_data calls that may be in flight together.
MaxCalls == 2

CallIds == 1..MaxCalls

(***************************************************************************)
(* The raw document held by the design-file API (external).  One file:     *)
(*   0:0 DOCUMENT                                                          *)
(*     0:1 CANVAS                                                          *)
(*       1:1 FRAME      fills P(red, opacity omitted), strokes P(red,1)    *)
(*         1:3 TEXT     fills P(red,1), typography Inter/14/400            *)
(*       1:2 WIDGETX    (a kind the simplifier does not know)              *)
(*       1:5 RECTANGLE  fills P(red,1), strokes P(blue,1)                  *)
(*     0:2 CANVAS                                                          *)
(*       2:1 TEXT       fills P(blue,1), typography Inter/14/400           *)
(***************************************************************************)
RawIds == {"0:0", "0:1", "0:2", "1:1", "1:2", "1:3", "1:5", "2:1"}
RootId == "0:0"
FileName == "Design"
FileLastModified == "2025-01-01"

RawKind(n) ==
  CASE n = "0:0" -> "DOCUMENT"
    [] n \in {"0:1", "0:2"} -> "CANVAS"
    [] n = "1:1" -> "FRAME"
    [] n \in {"1:3", "2:1"} -> "TEXT"
    [] n = "1:2" -> "WIDGETX"
    [] OTHER -> "RECTANGLE"

RawName(n) == "n" \o n

RawChildren(n) ==
  CASE n = "0:0" -> <<"0:1", "0:2">>
    [] n = "0:1" -> <<"1:1", "1:2", "1:5">>
    [] n = "0:2" -> <<"2:1">>
    [] n = "1:1" -> <<"1:3">>
    [] OTHER -> <<>>

Red == [color |-> "#FF0000", opacity |-> 1]
RedDefault == [color |-> "#FF0000"]
Blue == [color |-> "#0000FF", opacity |-> 1]
Inter14 == [family |-> "Inter", size |-> 14, weight |-> 400]

\* The property groups a raw node carries: a function from group name to the
\* raw value, defined only on the groups that are present.
RawProps(n) ==
  CASE n = "1:1" -> [fills |-> RedDefault, strokes |-> Red]
    [] n = "1:3" -> [fills |-> Red, textStyle |-> Inter14]
    [] n = "1:2" -> [fills |-> Blue]
    [] n = "1:5" -> [fills |-> Red, strokes |-> Blue]
    [] n = "2:1" -> [fills |-> Blue, textStyle |-> Inter14]
    [] OTHER -> <<>>

RECURSIVE RawDepthFrom(_, _)
\* Depth of node n below node e (0 for e itself), or -1 when n is not in e's subtree.
RawDepthFrom(e, n) ==
  IF n = e THEN 0
  ELSE LET below == {RawDepthFrom(RawChildren(e)[i], n) : i \in 1..Len(RawChildren(e))} \ {-1}
       IN IF below = {} THEN -1 ELSE 1 + CHOOSE d \in below : TRUE

Subtree(e) == {n \in RawIds : RawDepthFrom(e, n) >= 0}


(***************************************************************************)
(* The design-file API (external): what a GET of an endpoint answers when  *)
(* it answers 200.  A raw tree is given by its entry node and the set of   *)
(* nodes it includes; the API's depth parameter (a positive integer) cuts  *)
(* the tree below that depth, counted from the entry.                      *)
(***************************************************************************)
NoDepth == [given |-> FALSE, value |-> 0]
SomeDepth(k) == [given |-> TRUE, value |-> k]

Included(e, depthParam) ==
  {n \in Subtree(e) : depthParam.given => RawDepthFrom(e, n) <= depthParam.value}

\* The body of a 200 answer: one raw tree per entry node, each cut at the
\* depth parameter; found is FALSE when an entry is null (an id the file does
\* not hold).
RawResponse(entries, depthParam) ==
  [name |-> FileName, lastModified |-> FileLastModified,
   found |-> \A i \in DOMAIN entries : entries[i] \in RawIds,
   trees |-> [i \in DOMAIN entries |->
                [entry |-> entries[i], included |-> Included(entries[i], depthParam)]]]

\* GET /files/:key answers the document; GET /files/:key/nodes?ids=X answers
\* the node X, or null for an id the file does not hold.
ApiResponse(endpoint) ==
  RawResponse(<<IF endpoint.path = "nodes" THEN endpoint.ids ELSE RootId>>, endpoint.depth)

\* The API refuses a depth that is not a positive integer.
ApiAccepts(endpoint) == endpoint.depth.given => endpoint.depth.value >= 1

(***************************************************************************)
(* Interner (spec section 4.1): the value-deduplication table of one       *)
(* conversion, a sequence of entries in first-seen order.                  *)
(***************************************************************************)
EmptyTable == <<>>

Categories == {"fill", "stroke", "typography"}

\* The canonical form of a raw value: an omitted opacity is the default 1.
Normalize(raw) ==
  IF "color" \in DOMAIN raw /\ "opacity" \notin DOMAIN raw
  THEN [color |-> raw.color, opacity |-> 1]
  ELSE raw

TableIds(table) == {table[i].id : i \in DOMAIN table}

Slots(table, category, value) ==
  {i \in DOMAIN table : table[i].category = category /\ table[i].value = value}

CountOf(table, category) ==
  Cardinality({i \in DOMAIN table : table[i].category = category})

\* A mutant of Intern: never finds an equal value, always adds an entry.
InternAlwaysAdds(table, category, value) ==
  LET id == category \o "_" \o ToString(Len(table) + 1)
  IN [id |-> id,
      table |-> Append(table, [id |-> id, category |-> category, value |-> value])]

\* A mutant of Intern: looks an equal value up in every category.
InternAcrossCategories(table, category, value) ==
  LET same == {i \in DOMAIN table : table[i].value = value}
      id == category \o "_" \o ToString(CountOf(table, category) + 1)
  IN IF same # {}
     THEN [id |-> table[CHOOSE i \in same : TRUE].id, table |-> table]
     ELSE [id |-> id,
           table |-> Append(table, [id |-> id, category |-> category, value |-> value])]

\* intern(category, value) -> VarId, with the table after the call.
Intern(table, category, value) ==
  LET same == Slots(table, category, value)
      id == category \o "_" \o ToString(CountOf(table, category) + 1)
  IN IF same # {}
     THEN [id |-> table[CHOOSE i \in same : TRUE].id, table |-> table]
     ELSE [id |-> id,
           table |-> Append(table, [id |-> id, category |-> category, value |-> value])]

(***************************************************************************)
(* Tree Simplifier (spec section 4.2): parseFigmaResponse.                 *)
(***************************************************************************)
KnownKinds ==
  {"DOCUMENT", "CANVAS", "FRAME", "GROUP", "TEXT", "RECTANGLE", "VECTOR",
   "COMPONENT", "INSTANCE"}

\* The property groups in the order a node's normalizer extracts them.
GroupOrder == <<"fills", "strokes", "textStyle">>

CategoryOf(group) ==
  CASE group = "fills" -> "fill"
    [] group = "strokes" -> "stroke"
    [] OTHER -> "typography"

RECURSIVE InternGroups(_, _, _, _)
\* Folds the groups GroupOrder[i..] that props holds into the table; the node
\* gets the returned id under the group's name, an absent group no key at all.
InternGroups(props, i, node, table) ==
  IF i > Len(GroupOrder) THEN [node |-> node, table |-> table]
  ELSE LET g == GroupOrder[i]
       IN IF g \notin DOMAIN props
          THEN InternGroups(props, i + 1, node, table)
          ELSE LET r == Intern(table, CategoryOf(g), Normalize(props[g]))
               IN InternGroups(props, i + 1, node @@ (g :> r.id), r.table)

\* The kind tag of the simplified node: an unrecognized kind is "unknown".
NormalizeKind(kind) == IF kind \in KnownKinds THEN kind ELSE "unknown"

RECURSIVE SimplifyNode(_, _, _)
RECURSIVE SimplifyChildren(_, _, _)
\* Pre-order: the node's own groups are interned before its children's.  A
\* node of unknown kind is the minimal generic node (id, name, kind).
SimplifyNode(tree, n, table) ==
  LET kind == NormalizeKind(RawKind(n))
      base == [id |-> n, name |-> RawName(n), type |-> kind]
  IN IF kind = "unknown" THEN [node |-> base, table |-> table]
     ELSE LET own == InternGroups(RawProps(n), 1, base, table)
              kids == SelectSeq(RawChildren(n), LAMBDA c : c \in tree.included)
              sub == SimplifyChildren(tree, kids, own.table)
          IN [node |-> IF sub.nodes = <<>> THEN own.node
                       ELSE own.node @@ ("children" :> sub.nodes),
              table |-> sub.table]

SimplifyChildren(tree, kids, table) ==
  IF kids = <<>> THEN [nodes |-> <<>>, table |-> table]
  ELSE LET first == SimplifyNode(tree, Head(kids), table)
           rest == SimplifyChildren(tree, Tail(kids), first.table)
       IN [nodes |-> <<first.node>> \o rest.nodes, table |-> rest.table]

RECURSIVE SimplifyTrees(_, _)
\* The forest: the raw trees in order, through the one table.
SimplifyTrees(trees, table) ==
  IF trees = <<>> THEN [nodes |-> <<>>, table |-> table]
  ELSE LET first == SimplifyNode(Head(trees), Head(trees).entry, table)
           rest == SimplifyTrees(Tail(trees), first.table)
       IN [nodes |-> <<first.node>> \o rest.nodes, table |-> rest.table]

\* simplify(rawDocument) -> SimplifiedDesign, with one Interner of its own; a
\* target node the document does not hold is a failure thrown to the caller.
parseFigmaResponse(resp) ==
  IF ~resp.found THEN [ok |-> FALSE, error |-> "TypeError: node not found"]
  ELSE LET r == SimplifyTrees(resp.trees, EmptyTable)
       IN [ok |-> TRUE,
           design |-> [name |-> resp.name, lastModified |-> resp.lastModified,
                       nodes |-> r.nodes, globalVars |-> r.table]]

(***************************************************************************)
(* JSON.stringify, as the sequence of lexemes of the text it returns.      *)
(***************************************************************************)
Quote(s) == "\"" \o s \o "\""

\* A sequence given by a function, with its elements computed once.
Texts(f) == f \o <<>>

RECURSIVE JoinFrom(_, _, _, _)
JoinFrom(texts, n, sep, i) ==
  IF i > n THEN <<>>
  ELSE IF i = n THEN texts[i]
  ELSE texts[i] \o <<sep>> \o JoinFrom(texts, n, sep, i + 1)

\* Array.prototype.join over texts: the texts with sep between neighbours.
Join(texts, sep) == JoinFrom(texts, Len(texts), sep, 1)

RECURSIVE Members(_, _, _)
\* The n members of a JSON object or array from the i-th on: every member
\* after the first is preceded by a comma.
Members(texts, n, i) ==
  IF i > n THEN <<>>
  ELSE (IF i > 1 THEN <<",">> ELSE <<>>) \o texts[i] \o Members(texts, n, i + 1)

JsonObject(keys, texts) ==
  <<"{">>
    \o Members(Texts([i \in DOMAIN keys |-> <<Quote(keys[i]), ":">> \o texts[i]]), Len(keys), 1)
    \o <<"}">>

JsonArray(texts) == <<"[">> \o Members(texts, Len(texts), 1) \o <<"]">>

\* An interned value: a paint or a typography spec.
StringifyValue(v) ==
  IF "color" \in DOMAIN v
  THEN JsonObject(<<"color", "opacity">>, <<<<Quote(v.color)>>, <<ToString(v.opacity)>>>>)
  ELSE JsonObject(<<"family", "size", "weight">>,
                  <<<<Quote(v.family)>>, <<ToString(v.size)>>, <<ToString(v.weight)>>>>)

\* The keys of a simplified node in the order the simplifier sets them.
NodeKeyOrder == <<"id", "name", "type", "fills", "strokes", "textStyle", "children">>

RECURSIVE StringifyNode(_)
StringifyNode(node) ==
  LET keys == SelectSeq(NodeKeyOrder, LAMBDA k : k \in DOMAIN node)
  IN JsonObject(keys,
       Texts([i \in DOMAIN keys |->
          IF keys[i] = "children"
          THEN JsonArray(Texts([j \in DOMAIN node.children |-> StringifyNode(node.children[j])]))
          ELSE <<Quote(node[keys[i]])>>]))

StringifyGlobalVars(table) ==
  JsonObject(Texts([i \in DOMAIN table |-> table[i].id]),
             Texts([i \in DOMAIN table |-> StringifyValue(table[i].value)]))

\* The keys of a SimplifiedDesign other than nodes and globalVars.
MetadataKeyOrder == <<"name", "lastModified">>

StringifyMetadata(metadata) ==
  LET keys == SelectSeq(MetadataKeyOrder, LAMBDA k : k \in DOMAIN metadata)
  IN JsonObject(keys, Texts([i \in DOMAIN keys |-> <<Quote(metadata[keys[i]])>>]))


(***************************************************************************)
(* State.                                                                  *)
(***************************************************************************)
VARIABLES
  apiKey,      \* FigmaMcpServer.apiKey
  pc,          \* per get_figma_data call: "idle", "waiting" (at await axios.get), "done"
  args,        \* per call: the tool arguments
  service,     \* per call: the FigmaService instance of the call
  httpLog,     \* per call: the HTTP GETs issued, in order
  outcome,     \* per call: how the GET ended
  file,        \* per call: what the fetch gave the handler
  result       \* per call: the text of the tool result
  ,
  transports,  \* startHttpServer's map from session id to SSE transport
  created,     \* the number of SSE transports constructed so far
  sse,         \* per transport: "none", "open" (connected), "failed" (connect threw), "closed"
  post,        \* per POST /messages request: where its handler is
  handled      \* the messages handled: which transport handled which POST
  ,
  serverTransport, \* the transport the one McpServer is connected to (0 for none)
  replies          \* the replies sent: for which POST, of which session, on which stream
  ,
  configured,      \* the figmaApiKey the server was constructed with ("" for none)
  apiKeyRequired,  \* FigmaMcpServer.apiKeyRequired
  sseTransport,    \* single-transport server: this.sseTransport (0 for null)
  conn,            \* single-transport server, per client: its GET /sse
  ownKey,          \* per client: the key the client gave last in a query ("" for none)
  kpost            \* single-transport server, per POST /messages: where it is
  ,
  maskKey,         \* the API key in use, as a sequence of characters
  maskLine         \* the last log line that mentions a key
  ,
  env,             \* startServer: command line arguments and environment
  config,          \* startServer: what getServerConfig returned
  startPc,         \* startServer: "start", "configured", "exited", "constructed", "running"
  exitCode,        \* the code of process.exit, 0 while the process runs
  built,           \* whether a FigmaMcpServer has been constructed
  transportUp      \* the transport startServer connected: "none", "stdio", "http"
  ,
  dl,              \* one download_figma_images call: arguments, outcomes, answer
  iu               \* one get_figma_image_urls call: arguments, requests, answer

callRest == <<pc, args, service, httpLog, outcome, file, result>>
callVars == <<apiKey, pc, args, service, httpLog, outcome, file, result>>
httpVars == <<transports, created, sse, post, handled, serverTransport, replies>>
keyVars == <<configured, apiKeyRequired, sseTransport, conn, ownKey, kpost>>
maskVars == <<maskKey, maskLine>>
startVars == <<env, config, startPc, exitCode, built, transportUp>>
imageVars == <<dl, iu>>
extraVars == <<keyVars, maskVars, startVars, imageVars>>
\* What the actions of one part leave alone in the other parts.
exceptKey == <<callRest, httpVars, maskVars, startVars, imageVars>>
exceptMask == <<callVars, httpVars, keyVars, startVars, imageVars>>
exceptStart == <<callVars, httpVars, keyVars, maskVars, imageVars>>
exceptDownload == <<callVars, httpVars, keyVars, maskVars, startVars, iu>>
exceptUrls == <<callVars, httpVars, keyVars, maskVars, startVars, dl>>
vars == <<callVars, httpVars, extraVars>>

Undefined == [given |-> FALSE, value |-> ""]
Given(v) == [given |-> TRUE, value |-> v]

\* The key the server was started with, and the keys the API accepts.
StartupKey == "figd_startup"
ValidKeys == {"figd_startup"}

\* The arguments the calls are drawn from: nodeId (absent, a canvas with
\* siblings and descendants, an id the file does not hold), depth, key.
NodeIdArgs == {Undefined, Given("0:1"), Given("9:9")}
DepthArgs == {NoDepth, SomeDepth(0), SomeDepth(1)}
KeyArgs == {Undefined, Given("figd_other")}
ArgSets == [nodeId : NodeIdArgs, depth : DepthArgs, key : KeyArgs]
RequestIdSet == {"k3j9x2a", "p0q8w7e"}

\* How the GET may end (external): answered 200 ("ok"), answered with an
\* error status ("status": request throws a FigmaError object), or failed any
\* other way, by a timeout or with no response ("error": request throws an
\* Error with a message).
Outcomes == {"ok", "status", "error"}

NoFile == [ok |-> FALSE, error |-> ""]

(***************************************************************************)
(* FigmaService                                                            *)
(***************************************************************************)
\* A mutant of getFigmaService: the first instance made is kept and reused.
getFigmaServiceCached(key) ==
  LET made == {c \in DOMAIN pc : pc[c] # "idle"}
  IN IF made # {} THEN service[CHOOSE c \in made : TRUE]
     ELSE [apiKey |-> IF key.given THEN key.value ELSE apiKey]

\* new FigmaService(key ?? this.apiKey)
getFigmaService(key) == [apiKey |-> IF key.given THEN key.value ELSE apiKey]

\* `depth ? "?depth=" + depth : ""`: a depth of 0 is falsy and adds nothing.
DepthQuery(depth) ==
  IF depth.given /\ depth.value # 0 THEN SomeDepth(depth.value) ELSE NoDepth

getFileEndpoint(depth) == [path |-> "file", ids |-> "", depth |-> DepthQuery(depth)]

getNodeEndpoint(nodeId, depth) ==
  [path |-> "nodes", ids |-> nodeId, depth |-> DepthQuery(depth)]

\* A mutant of HandlerEndpoint: the node id is dropped.
HandlerEndpointWholeFile(a) == getFileEndpoint(a.depth)

\* `if (nodeId) getNode(...) else getFile(...)`
HandlerEndpoint(a) ==
  IF a.nodeId.given /\ a.nodeId.value # ""
  THEN getNodeEndpoint(a.nodeId.value, a.depth)
  ELSE getFileEndpoint(a.depth)

\* How a GET with this token of this endpoint may end.
PossibleOutcomes(token, endpoint) ==
  {o \in Outcomes : o = "ok" => (token \in ValidKeys /\ ApiAccepts(endpoint))}

\* A mutant of RetryGets: a failed GET is issued once more.
RetryGetsOnFailure(how, endpoint) == IF how = "ok" THEN <<>> ELSE <<endpoint>>

\* The GETs FigmaService.request issues after its one axios.get has settled.
RetryGets(how, endpoint) == <<>>

\* FigmaService.request after the await: response.data, or what is thrown.
request(how, endpoint) ==
  CASE how = "ok" -> [ok |-> TRUE, data |-> ApiResponse(endpoint)]
    [] how = "status" -> [ok |-> FALSE, error |-> "[object Object]"]
    [] OTHER -> [ok |-> FALSE, error |-> "Error: Figma API request failed"]

\* getFile / getNode after the request: the parsed response, or the rethrow.
Fetch(how, endpoint) ==
  LET r == request(how, endpoint)
  IN IF r.ok THEN parseFigmaResponse(r.data) ELSE r

(***************************************************************************)
(* The get_figma_data handler                                              *)
(***************************************************************************)
Metadata(design) == [k \in DOMAIN design \ {"nodes", "globalVars"} |-> design[k]]

\* A mutant of ResultJson: the nodes are joined without a separator.
ResultJsonNoComma(design, rid) ==
  <<"{", Quote("metadata"), ":">> \o StringifyMetadata(Metadata(design))
    \o <<",", Quote("nodes"), ":", "[">>
    \o Join(Texts([i \in DOMAIN design.nodes |-> StringifyNode(design.nodes[i])]), "")
    \o <<"]", ",", Quote("globalVars"), ":">> \o StringifyGlobalVars(design.globalVars)
    \o <<"}">>

\* A mutant of ResultJson: the request id is written into the text.
ResultJsonWithRequestId(design, rid) ==
  <<"{", Quote("metadata"), ":">> \o StringifyMetadata(Metadata(design))
    \o <<",", Quote("nodes"), ":", "[">>
    \o Join(Texts([i \in DOMAIN design.nodes |-> StringifyNode(design.nodes[i])]), ",")
    \o <<"]", ",", Quote("globalVars"), ":">> \o StringifyGlobalVars(design.globalVars)
    \o <<",", Quote("requestId"), ":", Quote(rid), "}">>

\* resultJson: metadata, the nodes serialized one by one and joined, and
\* globalVars, each serialized on its own and put between the fixed parts.
ResultJson(design, rid) ==
  LET nodesJson ==
        <<"[">>
          \o Join(Texts([i \in DOMAIN design.nodes |-> StringifyNode(design.nodes[i])]), ",")
          \o <<"]">>
      metadataJson == StringifyMetadata(Metadata(design))
      globalVarsJson == StringifyGlobalVars(design.globalVars)
  IN <<"{", Quote("metadata"), ":">> \o metadataJson
       \o <<",", Quote("nodes"), ":">> \o nodesJson
       \o <<",", Quote("globalVars"), ":">> \o globalVarsJson \o <<"}">>

\* A mutant of ErrorText: a failed fetch is answered like an empty design.
ErrorTextAsEmptyDesign(error) ==
  ResultJson([name |-> "", lastModified |-> "", nodes |-> <<>>, globalVars |-> EmptyTable], "")

\* The catch branch: `Error fetching file: ${error}`.
ErrorText(error) == <<"Error fetching file: ", error>>

HandlerText(fetched, rid) ==
  IF fetched.ok THEN ResultJson(fetched.design, rid) ELSE ErrorText(fetched.error)

\* Fetch and HandlerText do not read the state: they are tabulated once, over
\* every endpoint getFile and getNode can build from the arguments of a call.
Endpoints ==
  {getFileEndpoint(d) : d \in DepthArgs}
    \cup {getNodeEndpoint(n.value, d) : n \in {x \in NodeIdArgs : x.given}, d \in DepthArgs}

FetchTable ==
  [e \in Endpoints |-> ([how \in Outcomes |-> Fetch(how, e)] @@ <<>>)] @@ <<>>

HandlerTextTable ==
  [e \in Endpoints |->
     ([how \in Outcomes |->
         ([rid \in RequestIdSet |-> HandlerText(Fetch(how, e), rid)] @@ <<>>)] @@ <<>>)]
    @@ <<>>

(***************************************************************************)
(* startHttpServer: GET /sse and POST /messages over the transports map.   *)
(***************************************************************************)
MaxSessions == 2
MaxPosts == 2

TransportIds == 1..MaxSessions
PostIds == 1..MaxPosts

\* SSEServerTransport.sessionId: a fresh random UUID per transport.
SessionIdOf(t) == "session-" \o ToString(t)

\* The sessionId query values a POST may carry: every session id the server
\* may give out, and one that names no session.
SessionIdArgs == {SessionIdOf(t) : t \in TransportIds} \cup {"no-such-session"}

NoTransport == 0

\* live records whether the GET /sse response of the request's session id
\* was open (not yet closed) when the request arrived; sent counts the
\* responses written for the request, failed records that the hook or
\* handleMessage threw.
NewPost ==
  [at |-> "new", sessionId |-> "", transport |-> NoTransport, status |-> 0, live |-> FALSE,
   sent |-> 0, failed |-> FALSE]

\* res.status(code).send(...)
Send(r, code) == [r EXCEPT !.status = code, !.sent = @ + 1]

\* if (!res.headersSent) res.status(code).send(...)
SendUnlessSent(r, code) == IF r.sent = 0 THEN Send(r, code) ELSE r

\* A mutant of HandledStatus: the catch branch answers like the try branch.
HandledStatusAlways202(hookOk, handleOk) == 202

\* 202 after the hook and handleMessage have returned, 500 from the catch.
HandledStatus(hookOk, handleOk) == IF hookOk /\ handleOk THEN 202 ELSE 500

\* The session ids whose GET /sse response has not closed.
OpenSessionIds == {SessionIdOf(t) : t \in {u \in TransportIds : sse[u] \in {"open", "failed"}}}

InitHttp ==
  /\ transports = <<>>
  /\ created = 0
  /\ sse = [t \in TransportIds |-> "none"]
  /\ post = [p \in PostIds |-> NewPost]
  /\ handled = {}
  /\ serverTransport = NoTransport
  /\ replies = {}

\* transports[transport.sessionId] = transport
Register(t) == (SessionIdOf(t) :> t) @@ transports

\* A mutant of Unregister: the close handler deletes nothing.
UnregisterNothing(t) == transports

\* delete transports[transport.sessionId]
Unregister(t) ==
  [k \in DOMAIN transports \ {SessionIdOf(t)} |-> transports[k]]

\* A mutant of Lookup: the transport connected last, whatever the session id.
LookupLatest(sessionId) ==
  IF sessionId \in DOMAIN transports /\ created > 0 THEN created ELSE NoTransport

\* const transport = transports[sessionId]
Lookup(sessionId) ==
  IF sessionId \in DOMAIN transports THEN transports[sessionId] ELSE NoTransport

\* this.server.connect(transport) on the one McpServer (SDK, external): the
\* server keeps one transport, the one of the last connect; a connect that
\* throws may or may not have replaced it.
ConnectedTo(t, connected) == IF connected THEN {t} ELSE {serverTransport, t}

\* The close of a transport's response as the McpServer sees it (SDK,
\* external): its one transport is kept or cleared.
AfterClose(t) == {serverTransport, NoTransport}

\* GET /sse: a transport is constructed and registered, its close handler is
\* set, and the server is connected to it; when connect throws the answer
\* is 500 and the response ends.
SseGet ==
  /\ created < MaxSessions
  /\ LET t == created + 1
     IN /\ created' = t
        /\ transports' = Register(t)
        /\ \E connected \in BOOLEAN :
             /\ sse' = [sse EXCEPT ![t] = IF connected THEN "open" ELSE "failed"]
             /\ serverTransport' \in ConnectedTo(t, connected)
  /\ UNCHANGED <<post, handled, replies, callVars, extraVars>>

\* The response of a GET /sse closes: the close handler deletes the entry.
SseClose(t) ==
  /\ sse[t] \in {"open", "failed"}
  /\ sse' = [sse EXCEPT ![t] = "closed"]
  /\ transports' = Unregister(t)
  /\ serverTransport' \in AfterClose(t)
  /\ UNCHANGED <<created, post, handled, replies, callVars, extraVars>>

\* POST /messages up to `await mcpHook_updateMessageBody(req)`: without a
\* transport for the session id the answer is 400.
PostStart(p) ==
  /\ post[p].at = "new"
  /\ \E sid \in SessionIdArgs :
       LET transport == Lookup(sid)
       IN post' = [post EXCEPT ![p] =
                     IF transport = NoTransport
                     THEN Send([at |-> "done", sessionId |-> sid, transport |-> NoTransport,
                                status |-> 0, live |-> sid \in OpenSessionIds,
                                sent |-> 0, failed |-> FALSE], 400)
                     ELSE [at |-> "hook", sessionId |-> sid, transport |-> transport,
                           status |-> 0, live |-> sid \in OpenSessionIds,
                           sent |-> 0, failed |-> FALSE]]
  /\ UNCHANGED <<transports, created, sse, handled, serverTransport, replies,
                 callVars, extraVars>>

\* The rest of the handler: the hook gives the message and the transport
\* found at the start handles it (202), or one of the two throws (500).
PostHandle(p) ==
  /\ post[p].at = "hook"
  /\ \E hookOk, handleOk \in BOOLEAN :
       /\ handled' = IF hookOk
                     THEN handled \cup {[post |-> p, transport |-> post[p].transport]}
                     ELSE handled
       /\ post' = [post EXCEPT ![p] =
                     SendUnlessSent([@ EXCEPT !.at = "done", !.failed = ~(hookOk /\ handleOk)],
                                    HandledStatus(hookOk, handleOk))]
  /\ UNCHANGED <<transports, created, sse, serverTransport, replies, callVars, extraVars>>

\* The request of a POST answered 202 has run in the McpServer: the reply is
\* sent on the transport the server is connected to at that moment, and is
\* lost (stream 0) when it is connected to none.
Reply(p) ==
  /\ post[p].at = "done"
  /\ post[p].status = 202
  /\ \A r \in replies : r.post # p
  /\ replies' = replies \cup
                  {[post |-> p, transport |-> post[p].transport, stream |-> serverTransport]}
  /\ UNCHANGED <<transports, created, sse, post, handled, serverTransport,
                 callVars, extraVars>>

NextSse ==
  \/ SseGet
  \/ \E t \in TransportIds : SseClose(t)
  \/ \E p \in PostIds : PostStart(p) \/ PostHandle(p)

\* The HTTP handlers together with the replies of the McpServer.
NextReply == NextSse \/ \E p \in PostIds : Reply(p)

(***************************************************************************)
(* The single-transport server (the second FigmaMcpServer of server.ts):   *)
(* one this.sseTransport, one this.apiKey that the key query parameter of  *)
(* GET /sse and of POST /messages overwrites, getFigmaService() without a  *)
(* parameter.                                                              *)
(***************************************************************************)
MaxClients == 2
MaxKeyPosts == 2

Clients == 1..MaxClients
KeyPostIds == 1..MaxKeyPosts

NoKey == ""
\* The key of a client's own account.
ClientKey(c) == "figd_client" \o ToString(c)
\* req.query.key of a request of client c: absent, or the client's key.
QueryKeys(c) == {NoKey, ClientKey(c)}
\* What startServer passes to the constructor: no key, or the startup key.
ConfiguredKeys == {NoKey, StartupKey}

NullTransport == 0

NoConn == [at |-> "none", key |-> NoKey]
NewKeyPost ==
  [at |-> "new", client |-> 0, key |-> NoKey, status |-> 0, active |-> FALSE,
   sessionKey |-> NoKey, served |-> NoKey]

\* The parts of the single-transport server while it does not run.
IdleKey ==
  /\ configured = StartupKey
  /\ apiKeyRequired = TRUE
  /\ sseTransport = NullTransport
  /\ conn = [c \in Clients |-> NoConn]
  /\ ownKey = [c \in Clients |-> NoKey]
  /\ kpost = [p \in KeyPostIds |-> NewKeyPost]

\* The get_figma_data calls while none runs.
IdleCalls ==
  /\ pc = [c \in CallIds |-> "idle"]
  /\ args = [c \in CallIds |-> [nodeId |-> Undefined, depth |-> NoDepth, key |-> Undefined]]
  /\ service = [c \in CallIds |-> [apiKey |-> ""]]
  /\ httpLog = [c \in CallIds |-> <<>>]
  /\ outcome = [c \in CallIds |-> ""]
  /\ file = [c \in CallIds |-> NoFile]
  /\ result = [c \in CallIds |-> <<>>]

\* constructor: this.apiKeyRequired = !!figmaApiKey
ApiKeyRequired(figmaApiKey) == figmaApiKey # NoKey

\* GET /sse: `if (apiKey) ... else if (this.apiKeyRequired)` answers 400.
SseRejects(key) == key = NoKey /\ apiKeyRequired

\* updateApiKey(apiKey), called when the query holds a key.
KeyAfter(key) == IF key # NoKey THEN key ELSE apiKey

\* getFigmaService(): new FigmaService(this.apiKey)
getFigmaServiceOfServer == [apiKey |-> apiKey]

\* Whether some client's SSE connection is open.
ActiveSse == \E c \in Clients : conn[c].at = "open"

\* GET /sse of client c: the key check, then the transport is made and
\* stored and the server connected to it (500 when connect throws).
KeySseGet(c) ==
  /\ conn[c].at = "none"
  /\ \E key \in QueryKeys(c), connected \in BOOLEAN :
       /\ apiKey' = KeyAfter(key)
       /\ ownKey' = [ownKey EXCEPT ![c] = key]
       /\ IF SseRejects(key)
          THEN /\ conn' = [conn EXCEPT ![c] = [at |-> "rejected", key |-> key]]
               /\ UNCHANGED sseTransport
          ELSE /\ conn' = [conn EXCEPT ![c] =
                             [at |-> IF connected THEN "open" ELSE "failed", key |-> key]]
               /\ sseTransport' = c
  /\ UNCHANGED <<configured, apiKeyRequired, kpost, exceptKey>>

\* The SSE connection of client c closes: this server sets no close handler.
KeySseClose(c) ==
  /\ conn[c].at \in {"open", "failed"}
  /\ conn' = [conn EXCEPT ![c].at = "closed"]
  /\ UNCHANGED <<apiKey, configured, apiKeyRequired, sseTransport, ownKey, kpost, exceptKey>>

\* POST /messages of client c: 400 without this.sseTransport; else the key of
\* the query is stored and this.sseTransport.handlePostMessage answers (202
\* and the message, a tool call, is queued; or an error status).
KeyPost(p) ==
  /\ kpost[p].at = "new"
  /\ \E c \in Clients, answer \in {202, 500} : \E key \in QueryKeys(c) :
       LET session == IF key # NoKey THEN key ELSE ownKey[c]
           seen == [NewKeyPost EXCEPT !.client = c, !.key = key, !.active = ActiveSse,
                                      !.sessionKey = session]
       IN IF sseTransport = NullTransport
          THEN /\ kpost' = [kpost EXCEPT ![p] = [seen EXCEPT !.at = "done", !.status = 400]]
               /\ UNCHANGED <<apiKey, ownKey>>
          ELSE /\ apiKey' = KeyAfter(key)
               /\ ownKey' = [ownKey EXCEPT ![c] = session]
               /\ kpost' = [kpost EXCEPT ![p] =
                              [seen EXCEPT !.at = IF answer = 202 THEN "queued" ELSE "done",
                                           !.status = answer]]
  /\ UNCHANGED <<configured, apiKeyRequired, sseTransport, conn, exceptKey>>

\* The tool handler of a queued call runs: getFigmaService().
KeyToolRun(p) ==
  /\ kpost[p].at = "queued"
  /\ kpost' = [kpost EXCEPT ![p].at = "done", ![p].served = getFigmaServiceOfServer.apiKey]
  /\ UNCHANGED <<apiKey, configured, apiKeyRequired, sseTransport, conn, ownKey, exceptKey>>

(***************************************************************************)
(* Keys in log lines: maskApiKey (config.ts), FigmaService.getApiKey and   *)
(* updateApiKey (index.ts), FigmaMcpServer.updateApiKey (server.ts).  A    *)
(* key and the text shown for it are sequences of characters.              *)
(***************************************************************************)
MaxKeyLen == 5

KeyChars == {"a", "b"}
KeyTexts == UNION {[1..n -> KeyChars] : n \in 0..MaxKeyLen}

Stars(n) == [i \in 1..n |-> "*"]
\* The text logged in place of a key that is not given.
NotProvided == <<"not provided">>

\* key.slice(-n): the last n characters, the whole key when it is shorter.
SliceLast(key, n) ==
  IF Len(key) <= n THEN key ELSE SubSeq(key, Len(key) - n + 1, Len(key))

\* config.ts: if (key.length <= 4) return "****"; return `****${key.slice(-4)}`
maskApiKey(key) == IF Len(key) <= 4 THEN Stars(4) ELSE Stars(4) \o SliceLast(key, 4)

\* FigmaService.getApiKey(), the same two lines over this.apiKey
getApiKey(key) == IF Len(key) <= 4 THEN Stars(4) ELSE Stars(4) \o SliceLast(key, 4)

\* FigmaService.updateApiKey: `${apiKey ? '****' + apiKey.slice(-4) : '...'}`
ServiceUpdateShown(key) ==
  IF key # <<>> THEN Stars(4) \o SliceLast(key, 4) ELSE NotProvided

\* FigmaMcpServer.updateApiKey: `${newApiKey ? "******" + newApiKey.slice(-4) : "..."}`
ServerUpdateShown(key) ==
  IF key # <<>> THEN Stars(6) \o SliceLast(key, 4) ELSE NotProvided

NoLine == [op |-> "none", key |-> <<>>, shown |-> <<>>]

IdleMask ==
  /\ maskKey = <<>>
  /\ maskLine = NoLine

\* getServerConfig logs the configured key through maskApiKey.
LogConfig ==
  /\ maskLine' = [op |-> "maskApiKey", key |-> maskKey, shown |-> maskApiKey(maskKey)]
  /\ UNCHANGED <<maskKey, exceptMask>>

\* The FigmaService constructor and request log this.apiKey through getApiKey.
LogGetApiKey ==
  /\ maskLine' = [op |-> "getApiKey", key |-> maskKey, shown |-> getApiKey(maskKey)]
  /\ UNCHANGED <<maskKey, exceptMask>>

\* FigmaService.updateApiKey(apiKey): logs the new key, then stores it.
ServiceUpdateApiKey ==
  /\ \E key \in KeyTexts :
       /\ maskLine' = [op |-> "FigmaService.updateApiKey", key |-> key,
                       shown |-> ServiceUpdateShown(key)]
       /\ maskKey' = key
  /\ UNCHANGED exceptMask

\* FigmaMcpServer.updateApiKey(newApiKey): logs the new key, then stores it.
ServerUpdateApiKey ==
  /\ \E key \in KeyTexts :
       /\ maskLine' = [op |-> "FigmaMcpServer.updateApiKey", key |-> key,
                       shown |-> ServerUpdateShown(key)]
       /\ maskKey' = key
  /\ UNCHANGED exceptMask

NextMask == LogConfig \/ LogGetApiKey \/ ServiceUpdateApiKey \/ ServerUpdateApiKey

\* The characters of a key that a shown text gives away.
Revealed(shown) == SelectSeq(shown, LAMBDA ch : ch \in KeyChars)

(***************************************************************************)
(* Startup: getServerConfig (config.ts) and startServer (index.ts).        *)
(***************************************************************************)
DefaultPort == 3333

NoArg == [given |-> FALSE, value |-> 0]
Arg(v) == [given |-> TRUE, value |-> v]

\* The process environment and command line startServer runs with: the
\* --figma-api-key and --port arguments, FIGMA_API_KEY, PORT, NODE_ENV and
\* the --stdio flag ("" for an absent string).
Environments ==
  [cliKey : {NoKey, "figd_cli"}, envKey : {NoKey, "figd_env"},
   cliPort : {NoArg, Arg(0), Arg(8080)}, envPort : {"", "9090"},
   nodeEnv : {"", "development", "cli"}, stdioFlag : BOOLEAN]

\* parseInt(process.env.PORT, 10) for the PORT values of Environments.
ParseInt(text) == CASE text = "9090" -> 9090 [] OTHER -> 0

\* process.env.NODE_ENV === "cli" || process.argv.includes("--stdio")
IsStdioMode(e) == e.nodeEnv = "cli" \/ e.stdioFlag

\* getServerConfig: the key, then the port, then the "none" source.
getServerConfig(e) ==
  LET figmaApiKey == IF e.cliKey # NoKey THEN e.cliKey
                     ELSE IF e.envKey # NoKey THEN e.envKey ELSE NoKey
      keySource == IF e.cliKey # NoKey THEN "cli" ELSE "env"
      port == IF e.cliPort.given /\ e.cliPort.value # 0 THEN e.cliPort.value
              ELSE IF e.envPort # "" THEN ParseInt(e.envPort) ELSE DefaultPort
      portSource == IF e.cliPort.given /\ e.cliPort.value # 0 THEN "cli"
                    ELSE IF e.envPort # "" THEN "env" ELSE "default"
  IN [figmaApiKey |-> figmaApiKey,
      port |-> port,
      configSources |->
        [figmaApiKey |-> IF figmaApiKey = NoKey /\ e.nodeEnv # "development"
                         THEN "none" ELSE keySource,
         port |-> portSource]]

NoConfig ==
  [figmaApiKey |-> NoKey, port |-> 0,
   configSources |-> [figmaApiKey |-> "", port |-> ""]]

\* A mutant of StdioKeyMissing: the check is not made.
StdioKeyMissingIgnored(isStdioMode, figmaApiKey) == FALSE

\* if (isStdioMode && !config.figmaApiKey)
StdioKeyMissing(isStdioMode, figmaApiKey) == isStdioMode /\ figmaApiKey = NoKey

IdleStart ==
  /\ env = [cliKey |-> NoKey, envKey |-> NoKey, cliPort |-> NoArg, envPort |-> "",
            nodeEnv |-> "", stdioFlag |-> FALSE]
  /\ config = NoConfig
  /\ startPc = "start"
  /\ exitCode = 0
  /\ built = FALSE
  /\ transportUp = "none"

\* const config = getServerConfig(isStdioMode)
GetConfig ==
  /\ startPc = "start"
  /\ config' = getServerConfig(env)
  /\ startPc' = "configured"
  /\ UNCHANGED <<env, exitCode, built, transportUp, exceptStart>>

\* process.exit(1) in stdio mode without a key
ExitNoKey ==
  /\ startPc = "configured"
  /\ StdioKeyMissing(IsStdioMode(env), config.figmaApiKey)
  /\ startPc' = "exited"
  /\ exitCode' = 1
  /\ UNCHANGED <<env, config, built, transportUp, exceptStart>>

\* const server = new FigmaMcpServer(config.figmaApiKey)
Construct ==
  /\ startPc = "configured"
  /\ ~StdioKeyMissing(IsStdioMode(env), config.figmaApiKey)
  /\ startPc' = "constructed"
  /\ built' = TRUE
  /\ UNCHANGED <<env, config, exitCode, transportUp, exceptStart>>

\* await server.connect(new StdioServerTransport())
ConnectStdio ==
  /\ startPc = "constructed"
  /\ IsStdioMode(env)
  /\ startPc' = "running"
  /\ transportUp' = "stdio"
  /\ UNCHANGED <<env, config, exitCode, built, exceptStart>>

\* await server.startHttpServer(config.port)
StartHttp ==
  /\ startPc = "constructed"
  /\ ~IsStdioMode(env)
  /\ startPc' = "running"
  /\ transportUp' = "http"
  /\ UNCHANGED <<env, config, exitCode, built, exceptStart>>

NextStart == GetConfig \/ ExitNoKey \/ Construct \/ ConnectStdio \/ StartHttp

(***************************************************************************)
(* The download_figma_images tool: the handler of the second server and    *)
(* getImageFills / getImages of FigmaService, as in index.ts and in the    *)
(* earlier service of part_000.                                            *)
(***************************************************************************)
MaxNodes == 2

\* A requested node: nodeId is its position in the list, fileName is
\* "img<position><ext>".
ImageNodeShapes == [imageRef : {"", "ref"}, ext : {".png", ".svg", ".jpg"}]
ImageNodeLists == UNION {[1..n -> ImageNodeShapes] : n \in 1..MaxNodes}

FileNameOf(i, node) == "img" \o ToString(i) \o node.ext

\* fileName.endsWith(".svg") ? "svg" : "png"
FileTypeOf(node) == IF node.ext = ".svg" THEN "svg" ELSE "png"

Services == {"index", "part_000"}

\* What happens to the image of one node: its URL is in the response and the
\* download succeeds, its URL is missing, or downloadFigmaImage rejects.
NodeFates == {"ok", "nourl", "dlfail"}
\* What a request to Figma does: answers, throws, or answers without images.
FillsFates == {"ok", "throw"}
RenderFates == {"ok", "throw", "noimages"}

Indices(nodes) == [i \in 1..Len(nodes) |-> i]

\* results.filter(Boolean)
FilterBoolean(names) == SelectSeq(names, LAMBDA name : name # "")

Resolved(names) == [threw |-> FALSE, names |-> names]
Rejected == [threw |-> TRUE, names |-> <<>>]

\* FigmaService.getImageFills over the nodes with an imageRef.
getImageFills(svc, nodes, fills, fate, req) ==
  IF fills = <<>> THEN Resolved(<<>>)
  ELSE IF req.fills = "throw" THEN Rejected
  ELSE LET results == [k \in 1..Len(fills) |->
                         IF fate[fills[k]] = "ok"
                         THEN FileNameOf(fills[k], nodes[fills[k]]) ELSE ""]
       IN IF svc = "index" THEN Resolved(FilterBoolean(results))
          ELSE IF \E k \in 1..Len(fills) : fate[fills[k]] = "dlfail" THEN Rejected
          ELSE Resolved(results)

\* One format group of getImages in index.ts: request, then the downloads.
RenderGroup(nodes, group, fate, groupFate) ==
  IF group = <<>> \/ groupFate = "noimages" THEN <<>>
  ELSE FilterBoolean([k \in 1..Len(group) |->
                        IF fate[group[k]] = "ok"
                        THEN FileNameOf(group[k], nodes[group[k]]) ELSE ""])

\* FigmaService.getImages over the nodes without an imageRef.
getImages(svc, nodes, renders, fate, req) ==
  LET svgNodes == SelectSeq(renders, LAMBDA i : FileTypeOf(nodes[i]) = "svg")
      pngNodes == SelectSeq(renders, LAMBDA i : FileTypeOf(nodes[i]) = "png")
      threw == \/ (svgNodes # <<>> /\ req.svg = "throw")
               \/ (pngNodes # <<>> /\ req.png = "throw")
      has(i) == IF FileTypeOf(nodes[i]) = "svg" THEN req.svg = "ok" ELSE req.png = "ok"
      withUrl == SelectSeq(renders, LAMBDA i : has(i) /\ fate[i] # "nourl")
  IN IF svc = "index"
     THEN IF renders = <<>> THEN Resolved(<<>>)
          ELSE IF threw THEN Rejected
          ELSE Resolved(RenderGroup(nodes, svgNodes, fate, req.svg)
                          \o RenderGroup(nodes, pngNodes, fate, req.png))
     ELSE IF threw THEN Rejected
          ELSE IF \E k \in 1..Len(withUrl) : fate[withUrl[k]] = "dlfail" THEN Rejected
          ELSE Resolved([k \in 1..Len(withUrl) |-> FileNameOf(withUrl[k], nodes[withUrl[k]])])

\* The text the download_figma_images handler answers with.
DownloadText(svc, nodes, fate, req) ==
  LET imageFills == SelectSeq(Indices(nodes), LAMBDA i : nodes[i].imageRef # "")
      renderRequests == SelectSeq(Indices(nodes), LAMBDA i : nodes[i].imageRef = "")
      f == getImageFills(svc, nodes, imageFills, fate, req)
      r == getImages(svc, nodes, renderRequests, fate, req)
      downloads == f.names \o r.names
      saveSuccess == ~\E k \in 1..Len(downloads) : downloads[k] = ""
  IN IF f.threw \/ r.threw THEN [kind |-> "Error downloading images", n |-> 0, files |-> <<>>]
     ELSE IF saveSuccess
          THEN [kind |-> "Success", n |-> Len(downloads), files |-> downloads]
          ELSE [kind |-> "Failed", n |-> 0, files |-> <<>>]

NoText == [kind |-> "", n |-> 0, files |-> <<>>]
NoReq == [fills |-> "ok", svg |-> "ok", png |-> "ok"]

IdleDownload ==
  dl = [pc |-> "idle", service |-> "index", nodes |-> <<>>, fate |-> <<>>,
        req |-> NoReq, text |-> NoText]

\* A client calls download_figma_images with a list of nodes.
CallDownload ==
  /\ dl.pc = "idle"
  /\ \E nodes \in ImageNodeLists :
       dl' = [dl EXCEPT !.pc = "running", !.nodes = nodes]
  /\ UNCHANGED exceptDownload

\* Figma and the downloads answer; the handler returns its text.
AnswerDownload ==
  /\ dl.pc = "running"
  /\ \E fate \in [1..Len(dl.nodes) -> NodeFates],
        req \in [fills : FillsFates, svg : RenderFates, png : RenderFates] :
       dl' = [dl EXCEPT !.pc = "done", !.fate = fate, !.req = req,
                        !.text = DownloadText(dl.service, dl.nodes, fate, req)]
  /\ UNCHANGED exceptDownload

NextDownload == CallDownload \/ AnswerDownload

(***************************************************************************)
(* The get_figma_image_urls tool of the first server.                      *)
(***************************************************************************)
MaxUrlNodes == 2

NodeIds == {"1:1", "1:2"}

\* The nodes argument as the client sends it: format "" and scale NoArg
\* stand for an omitted property.
RawUrlNodeShapes ==
  [nodeId : NodeIds, imageRef : {"", "ref"}, format : {"", "png", "svg"},
   scale : {NoArg, Arg(0), Arg(1), Arg(2)}]
RawUrlNodeLists == UNION {[1..n -> RawUrlNodeShapes] : n \in 1..MaxUrlNodes}

\* The schema's .optional().default("png") and .optional().default(1).
ParseUrlNode(raw) ==
  [nodeId |-> raw.nodeId, imageRef |-> raw.imageRef,
   format |-> IF raw.format = "" THEN "png" ELSE raw.format,
   scale |-> IF raw.scale.given THEN raw.scale.value ELSE 1]

\* const format = node.format || "png"; const scale = node.scale || 1
GroupFormat(node) == IF node.format = "" THEN "png" ELSE node.format
GroupScale(node) == IF node.scale = 0 THEN 1 ELSE node.scale

\* formatGroups after the nodes renderNodes[k..] have been pushed: the
\* groups in the order their keys were first seen.
RECURSIVE FormatGroups(_, _, _)
FormatGroups(renderNodes, k, groups) ==
  IF k > Len(renderNodes) THEN groups
  ELSE LET node == renderNodes[k]
           at == {g \in 1..Len(groups) :
                    groups[g].format = GroupFormat(node) /\ groups[g].scale = GroupScale(node)}
       IN IF at = {}
          THEN FormatGroups(renderNodes, k + 1,
                 Append(groups, [format |-> GroupFormat(node), scale |-> GroupScale(node),
                                 nodeIds |-> <<node.nodeId>>]))
          ELSE LET g == CHOOSE g \in at : TRUE
               IN FormatGroups(renderNodes, k + 1,
                    [groups EXCEPT ![g].nodeIds = Append(@, node.nodeId)])

ImageFillsOf(nodes) == SelectSeq(nodes, LAMBDA node : node.imageRef # "")
RenderNodesOf(nodes) == SelectSeq(nodes, LAMBDA node : node.imageRef = "")

\* The URL Figma answers with for one node of an image request.
RenderUrl(group, nodeId) ==
  "https://img/" \o nodeId \o "." \o group.format \o "@" \o ToString(group.scale)
FillUrl(imageRef) == "https://fill/" \o imageRef

NoUrls == [id \in NodeIds |-> ""]

\* nodeResults and the summary the handler serialises.
UrlResult(nodes, imageUrls) ==
  LET nodeResults == [i \in 1..Len(nodes) |->
                        [nodeId |-> nodes[i].nodeId, url |-> imageUrls[nodes[i].nodeId],
                         success |-> imageUrls[nodes[i].nodeId] # ""]]
      successCount == Cardinality({i \in 1..Len(nodes) : nodeResults[i].success})
  IN [success |-> successCount = Len(nodes), total |-> Len(nodes),
      successCount |-> successCount, images |-> nodeResults]

NoUrlResult == [success |-> FALSE, total |-> 0, successCount |-> 0, images |-> <<>>]

NewUrlCall ==
  [pc |-> "idle", raw |-> <<>>, nodes |-> <<>>, groups |-> <<>>, next |-> 1,
   requests |-> <<>>, imageUrls |-> NoUrls, threw |-> FALSE, result |-> NoUrlResult]

IdleUrls == iu = NewUrlCall

\* A client calls get_figma_image_urls; the schema parses the nodes.
CallImageUrls ==
  /\ iu.pc = "idle"
  /\ \E raw \in RawUrlNodeLists :
       iu' = [iu EXCEPT !.pc = "fills", !.raw = raw,
                        !.nodes = [i \in 1..Len(raw) |-> ParseUrlNode(raw[i])]]
  /\ UNCHANGED exceptUrls

\* The image-fill part: one request when some node has an imageRef; then
\* the render nodes are grouped.
RequestFills ==
  /\ iu.pc = "fills"
  /\ LET imageFills == ImageFillsOf(iu.nodes)
         groups == FormatGroups(RenderNodesOf(iu.nodes), 1, <<>>)
     IN IF imageFills = <<>>
        THEN iu' = [iu EXCEPT !.pc = "render", !.groups = groups]
        ELSE \E answer \in {"images", "empty", "throw"} :
               LET sent == Append(iu.requests, [endpoint |-> "files/images"])
               IN IF answer = "throw"
                  THEN iu' = [iu EXCEPT !.pc = "done", !.requests = sent, !.threw = TRUE]
                  ELSE iu' = [iu EXCEPT
                         !.pc = "render", !.requests = sent, !.groups = groups,
                         !.imageUrls =
                           [id \in NodeIds |->
                              IF answer = "images"
                                 /\ \E k \in 1..Len(imageFills) : imageFills[k].nodeId = id
                              THEN FillUrl("ref") ELSE ""]]
  /\ UNCHANGED exceptUrls

\* One pass of the loop over formatGroups: the request of one group.
RequestRender ==
  /\ iu.pc = "render"
  /\ iu.next <= Len(iu.groups)
  /\ LET group == iu.groups[iu.next]
         sent == Append(iu.requests,
                   [endpoint |-> "images", ids |-> group.nodeIds,
                    format |-> group.format, scale |-> group.scale])
         ids == {group.nodeIds[k] : k \in 1..Len(group.nodeIds)}
     IN \E answer \in {"images", "empty", "throw"} :
          IF answer = "throw"
          THEN iu' = [iu EXCEPT !.pc = "done", !.requests = sent, !.threw = TRUE]
          ELSE iu' = [iu EXCEPT
                 !.requests = sent, !.next = @ + 1,
                 !.imageUrls =
                   [id \in NodeIds |->
                      IF answer = "images" /\ id \in ids
                      THEN RenderUrl(group, id) ELSE iu.imageUrls[id]]]
  /\ UNCHANGED exceptUrls

\* After the last group: nodeResults and the answer.
AnswerUrls ==
  /\ iu.pc = "render"
  /\ iu.next > Len(iu.groups)
  /\ iu' = [iu EXCEPT !.pc = "done", !.result = UrlResult(iu.nodes, iu.imageUrls)]
  /\ UNCHANGED exceptUrls

NextUrls == CallImageUrls \/ RequestFills \/ RequestRender \/ AnswerUrls

\* The parts no action of a specification touches, at rest.
IdleExtra == IdleKey /\ IdleMask /\ IdleStart /\ IdleDownload /\ IdleUrls

\* The server and the calls at rest.
IdleServer == InitHttp /\ apiKey = StartupKey /\ IdleCalls

(***************************************************************************)
(* The specifications of the parts.                                        *)
(***************************************************************************)
InitKey ==
  /\ InitHttp
  /\ IdleCalls
  /\ \E figmaApiKey \in ConfiguredKeys :
       /\ configured = figmaApiKey
       /\ apiKey = figmaApiKey
       /\ apiKeyRequired = ApiKeyRequired(figmaApiKey)
  /\ sseTransport = NullTransport
  /\ conn = [c \in Clients |-> NoConn]
  /\ ownKey = [c \in Clients |-> NoKey]
  /\ kpost = [p \in KeyPostIds |-> NewKeyPost]
  /\ IdleMask /\ IdleStart /\ IdleDownload /\ IdleUrls

NextKey ==
  \/ \E c \in Clients : KeySseGet(c) \/ KeySseClose(c)
  \/ \E p \in KeyPostIds : KeyPost(p) \/ KeyToolRun(p)

SpecKey == InitKey /\ [][NextKey]_vars

InitMask ==
  /\ IdleServer /\ IdleKey /\ IdleStart /\ IdleDownload /\ IdleUrls
  /\ maskKey \in KeyTexts
  /\ maskLine = NoLine

SpecMask == InitMask /\ [][NextMask]_vars

InitStart ==
  /\ IdleServer /\ IdleKey /\ IdleMask /\ IdleDownload /\ IdleUrls
  /\ env \in Environments
  /\ config = NoConfig
  /\ startPc = "start"
  /\ exitCode = 0
  /\ built = FALSE
  /\ transportUp = "none"

SpecStart == InitStart /\ [][NextStart]_vars

InitDownload ==
  /\ IdleServer /\ IdleKey /\ IdleMask /\ IdleStart /\ IdleUrls
  /\ \E svc \in Services :
       dl = [pc |-> "idle", service |-> svc, nodes |-> <<>>, fate |-> <<>>,
             req |-> NoReq, text |-> NoText]

SpecDownload == InitDownload /\ [][NextDownload]_vars

InitUrls ==
  /\ IdleServer /\ IdleKey /\ IdleMask /\ IdleStart /\ IdleDownload
  /\ iu = NewUrlCall

SpecUrls == InitUrls /\ [][NextUrls]_vars

(***************************************************************************)
(* The get_figma_data call, step by step                                   *)
(***************************************************************************)
Init ==
  /\ InitHttp
  /\ apiKey = StartupKey
  /\ pc = [c \in CallIds |-> "idle"]
  /\ args = [c \in CallIds |-> [nodeId |-> Undefined, depth |-> NoDepth, key |-> Undefined]]
  /\ service = [c \in CallIds |-> [apiKey |-> ""]]
  /\ httpLog = [c \in CallIds |-> <<>>]
  /\ outcome = [c \in CallIds |-> ""]
  /\ file = [c \in CallIds |-> NoFile]
  /\ result = [c \in CallIds |-> <<>>]
  /\ IdleExtra

\* The handler up to `await axios.get(...)`: the service is made, getNode or
\* getFile builds the endpoint and request issues the GET.
Invoke(c) ==
  /\ pc[c] = "idle"
  /\ \E a \in ArgSets :
       /\ args' = [args EXCEPT ![c] = a]
       /\ service' = [service EXCEPT ![c] = getFigmaService(a.key)]
       /\ httpLog' = [httpLog EXCEPT ![c] = <<HandlerEndpoint(a)>>]
  /\ pc' = [pc EXCEPT ![c] = "waiting"]
  /\ UNCHANGED <<apiKey, outcome, file, result, httpVars, extraVars>>

\* The GET settles and the handler runs to its return.  rid is the request
\* id of the call, a local of request that only its log lines read.
Complete(c) ==
  /\ pc[c] = "waiting"
  /\ \E o \in PossibleOutcomes(service[c].apiKey, httpLog[c][1]), rid \in RequestIdSet :
       LET fetched == FetchTable[httpLog[c][1]][o]
       IN /\ outcome' = [outcome EXCEPT ![c] = o]
          /\ httpLog' = [httpLog EXCEPT ![c] = @ \o RetryGets(o, httpLog[c][1])]
          /\ file' = [file EXCEPT ![c] = fetched]
          /\ result' = [result EXCEPT ![c] = HandlerTextTable[httpLog[c][1]][o][rid]]
  /\ pc' = [pc EXCEPT ![c] = "done"]
  /\ UNCHANGED <<apiKey, args, service, httpVars, extraVars>>

Next == \E c \in CallIds : Invoke(c) \/ Complete(c)

Spec == Init /\ [][Next]_vars

SpecSse == Init /\ [][NextSse]_vars

SpecReply == Init /\ [][NextReply]_vars


(***************************************************************************)
(* The handler's serialization on its own: the state after the fetch has   *)
(* returned a design, for the designs of one to MaxEntries raw trees.      *)
(***************************************************************************)
MaxEntries == 2

EntrySeqs == UNION {[1..n -> RawIds] : n \in 0..MaxEntries}

InitJson ==
  /\ InitHttp
  /\ apiKey = StartupKey
  /\ pc = [c \in CallIds |-> IF c = 1 THEN "fetched" ELSE "idle"]
  /\ args = [c \in CallIds |-> [nodeId |-> Undefined, depth |-> NoDepth, key |-> Undefined]]
  /\ service = [c \in CallIds |-> [apiKey |-> ""]]
  /\ httpLog = [c \in CallIds |-> <<>>]
  /\ outcome = [c \in CallIds |-> IF c = 1 THEN "ok" ELSE ""]
  /\ \E entries \in EntrySeqs, d \in {NoDepth, SomeDepth(1)} :
       file = [c \in CallIds |->
                 IF c = 1 THEN parseFigmaResponse(RawResponse(entries, d)) ELSE NoFile]
  /\ result = [c \in CallIds |-> <<>>]
  /\ IdleExtra

\* The handler from the fetch's return to its own.
Serialize(c) ==
  /\ pc[c] = "fetched"
  /\ \E rid \in RequestIdSet :
       result' = [result EXCEPT ![c] = HandlerText(file[c], rid)]
  /\ pc' = [pc EXCEPT ![c] = "done"]
  /\ UNCHANGED <<apiKey, args, service, httpLog, outcome, file, httpVars, extraVars>>

NextJson == \E c \in CallIds : Serialize(c)

SpecJson == InitJson /\ [][NextJson]_vars

(***************************************************************************)
(* What a design holds.                                                    *)
(***************************************************************************)
RECURSIVE NodeDepths(_, _)
\* The <<id, depth>> of a simplified node and of every node below it.
NodeDepths(node, d) ==
  {<<node.id, d>>} \cup
    (IF "children" \in DOMAIN node
     THEN UNION {NodeDepths(node.children[i], d + 1) : i \in DOMAIN node.children}
     ELSE {})

OutputDepths(design) == UNION {NodeDepths(design.nodes[i], 0) : i \in DOMAIN design.nodes}

OutputIds(design) == {p[1] : p \in OutputDepths(design)}

RECURSIVE NodesOf(_)
\* A simplified node and every node below it.
NodesOf(node) ==
  {node} \cup
    (IF "children" \in DOMAIN node
     THEN UNION {NodesOf(node.children[i]) : i \in DOMAIN node.children}
     ELSE {})

OutputNodes(design) == UNION {NodesOf(design.nodes[i]) : i \in DOMAIN design.nodes}

Done(c) == pc[c] = "done"
Converted(c) == pc[c] = "done" /\ file[c].ok

\* JSON.stringify({metadata, nodes, globalVars}): the one combined object.
SingleObjectJson(design) ==
  JsonObject(<<"metadata", "nodes", "globalVars">>,
             <<StringifyMetadata([k \in DOMAIN design \ {"nodes", "globalVars"} |-> design[k]]),
               JsonArray(Texts([i \in DOMAIN design.nodes |-> StringifyNode(design.nodes[i])])),
               StringifyGlobalVars(design.globalVars)>>)

(***************************************************************************)
(* C1: the text get_figma_data returns for a design is the serialization   *)
(* of the one object {metadata, nodes, globalVars}: these three keys, the  *)
(* nodes in the design's order, metadata every other field of the design.  *)
(***************************************************************************)
C1_AssembledEqualsSingleObject ==
  \A c \in CallIds : Converted(c) => result[c] = SingleObjectJson(file[c].design)

C1_Witness ==
  /\ Converted(1)
  /\ Len(file[1].design.nodes) >= 2
  /\ Len(file[1].design.globalVars) >= 2
  /\ \E i \in DOMAIN file[1].design.nodes : "children" \in DOMAIN file[1].design.nodes[i]
  /\ result[1] # <<>>

(***************************************************************************)
(* C2: with a depth k given, no node deeper than k is in the output, for   *)
(* every k the tool accepts.                                               *)
(***************************************************************************)
C2_DepthLimitRespected ==
  \A c \in CallIds :
    (Converted(c) /\ args[c].depth.given) =>
      \A p \in OutputDepths(file[c].design) : p[2] <= args[c].depth.value

(***************************************************************************)
(* C3: with a node id X given, the output holds X and nodes below X only.  *)
(***************************************************************************)
C3_SubtreeScoped ==
  \A c \in CallIds :
    (Converted(c) /\ args[c].nodeId.given /\ args[c].nodeId.value # "") =>
      /\ OutputIds(file[c].design) \subseteq Subtree(args[c].nodeId.value)
      /\ \A i \in DOMAIN file[c].design.nodes :
           file[c].design.nodes[i].id = args[c].nodeId.value

C3_Witness ==
  \E c \in CallIds :
    /\ Converted(c) /\ args[c].nodeId = Given("0:1")
    /\ "1:1" \in OutputIds(file[c].design)
    /\ "0:2" \notin OutputIds(file[c].design)
    /\ RootId \notin OutputIds(file[c].design)

(***************************************************************************)
(* C4: equal normalized values of one category collapse to one id: a       *)
(* second intern of an equal value returns the same id and leaves the      *)
(* table as it is; the table of a conversion holds one entry per distinct  *)
(* value and every node that uses the value refers to that entry.          *)
(***************************************************************************)
InternValues == {Red, Blue, Inter14, [color |-> "#00FF00", opacity |-> 1]}

C4_InternCollapsesEqualValues ==
  \A c \in CallIds :
    Converted(c) =>
      LET T == file[c].design.globalVars
      IN /\ \A i, j \in DOMAIN T :
              (T[i].category = T[j].category /\ T[i].value = T[j].value) => i = j
         /\ \A cat \in Categories, v \in InternValues :
              LET once == Intern(T, cat, v)
                  twice == Intern(once.table, cat, v)
              IN twice.id = once.id /\ twice.table = once.table
         /\ \A n \in OutputNodes(file[c].design) :
              \A g \in DOMAIN n \cap {"fills", "strokes", "textStyle"} :
                \E i \in DOMAIN T :
                  /\ T[i].id = n[g]
                  /\ T[i].category = CategoryOf(g)
                  /\ T[i].value = Normalize(RawProps(n.id)[g])

C4_Witness ==
  \E c \in CallIds :
    /\ Converted(c)
    /\ Cardinality({n \in OutputNodes(file[c].design) :
                      "fills" \in DOMAIN n /\ n.fills = "fill_1"}) >= 3
    /\ Cardinality({n \in OutputNodes(file[c].design) :
                      "textStyle" \in DOMAIN n /\ n.textStyle = "typography_1"}) >= 2

(***************************************************************************)
(* C5: one value interned under two categories gives two ids and two       *)
(* entries; ids of different categories never collide.                     *)
(***************************************************************************)
C5_CategoriesKeptApart ==
  \A c \in CallIds :
    Converted(c) =>
      LET T == file[c].design.globalVars
      IN /\ \A i, j \in DOMAIN T : T[i].id = T[j].id => i = j
         /\ \A n \in OutputNodes(file[c].design) :
              ({"fills", "strokes"} \subseteq DOMAIN n) => n.fills # n.strokes
         /\ \A c1, c2 \in Categories, v \in InternValues :
              c1 # c2 =>
                LET first == Intern(T, c1, v)
                    second == Intern(first.table, c2, v)
                    table == second.table
                IN /\ first.id # second.id
                   /\ \E i \in DOMAIN table :
                        table[i] = [id |-> first.id, category |-> c1, value |-> v]
                   /\ \E j \in DOMAIN table :
                        table[j] = [id |-> second.id, category |-> c2, value |-> v]

C5_Witness ==
  \E c \in CallIds :
    /\ Converted(c)
    /\ \E i, j \in DOMAIN file[c].design.globalVars :
         /\ file[c].design.globalVars[i].value = file[c].design.globalVars[j].value
         /\ file[c].design.globalVars[i].category = "fill"
         /\ file[c].design.globalVars[j].category = "stroke"


SoloRun(a, how, fetched, text) ==
  LET token == IF a.key.given THEN a.key.value ELSE StartupKey
      endpoint == [path |-> IF a.nodeId.given /\ a.nodeId.value # "" THEN "nodes" ELSE "file",
                   ids |-> IF a.nodeId.given /\ a.nodeId.value # "" THEN a.nodeId.value ELSE "",
                   depth |-> IF a.depth.given /\ a.depth.value # 0 THEN a.depth ELSE NoDepth]
  IN /\ how \in PossibleOutcomes(token, endpoint)
     /\ fetched = FetchTable[endpoint][how]
     /\ \E rid \in RequestIdSet : text = HandlerTextTable[endpoint][how][rid]

C7_CallsIndependent ==
  \A c \in CallIds : Done(c) => SoloRun(args[c], outcome[c], file[c], result[c])

C7_Witness ==
  \E c1, c2 \in CallIds :
    /\ Converted(c1) /\ pc[c2] = "waiting"
    /\ args[c1].key # args[c2].key
    /\ args[c1].nodeId # args[c2].nodeId

(***************************************************************************)
(* C8: a node of unrecognized kind is emitted as a generic node and the    *)
(* rest of the document is converted; a node id the document does not      *)
(* hold is answered with a failure no successful output equals.            *)
(***************************************************************************)
UnknownRaw == {n \in RawIds : RawKind(n) \notin KnownKinds}

AbsentRequested(c) ==
  args[c].nodeId.given /\ args[c].nodeId.value # "" /\ args[c].nodeId.value \notin RawIds

C8_UnknownKindAndAbsentNode ==
  \A c \in CallIds :
    Done(c) =>
      /\ (outcome[c] = "ok" /\ ~AbsentRequested(c)) =>
           LET tree == ApiResponse(httpLog[c][1]).trees[1]
           IN /\ file[c].ok
              /\ OutputIds(file[c].design) = tree.included
              /\ \A n \in UnknownRaw \cap tree.included :
                   [id |-> n, name |-> RawName(n), type |-> "unknown"]
                     \in OutputNodes(file[c].design)
      /\ AbsentRequested(c) =>
           /\ ~file[c].ok
           /\ result[c][1] = "Error fetching file: "
           /\ \A d \in CallIds : Converted(d) => result[d] # result[c]

C8_Witness ==
  \E c1, c2 \in CallIds :
    /\ Converted(c1) /\ "1:2" \in OutputIds(file[c1].design)
    /\ "1:5" \in OutputIds(file[c1].design)
    /\ Done(c2) /\ AbsentRequested(c2) /\ outcome[c2] = "ok"

(***************************************************************************)
(* C9: a call of FigmaService.request issues one HTTP GET, and none after  *)
(* that GET has failed.                                                    *)
(***************************************************************************)
C9_NoRetry ==
  \A c \in CallIds : Len(httpLog[c]) = IF pc[c] = "idle" THEN 0 ELSE 1

C9_Witness ==
  \E c \in CallIds : Done(c) /\ outcome[c] \in {"status", "error"}
                       /\ Len(httpLog[c]) = 1


(***************************************************************************)
(* C10: several SSE clients at once: every GET /sse registers its own      *)
(* transport under its own session id, and a POST /messages is handled by  *)
(* the transport whose session id is the request's sessionId and by no     *)
(* other, under every interleaving of connects, posts and disconnects.     *)
(***************************************************************************)
C10_PostsRoutedBySession ==
  /\ \A k \in DOMAIN transports : SessionIdOf(transports[k]) = k
  /\ \A t \in TransportIds :
       sse[t] \in {"open", "failed"} => (SessionIdOf(t) \in DOMAIN transports)
  /\ \A p \in PostIds :
       post[p].transport # NoTransport => SessionIdOf(post[p].transport) = post[p].sessionId
  /\ \A h \in handled : SessionIdOf(h.transport) = post[h.post].sessionId
  /\ \A h1, h2 \in handled : h1.post = h2.post => h1 = h2

C10_Witness ==
  /\ Cardinality(DOMAIN transports) >= 2
  /\ \E h1, h2 \in handled :
       /\ h1.transport # h2.transport
       /\ post[h1.post].status = 202 /\ post[h2.post].status = 202
       /\ h1.transport < created

(***************************************************************************)
(* C11: a GET /sse is answered 400, and no transport is made for it,       *)
(* exactly when its query holds no key and the server was started with no  *)
(* key; with a configured key, or a key in the query, it is accepted.      *)
(***************************************************************************)
C11_SseRejectedIffNoKeyAnywhere ==
  \A c \in Clients :
    conn[c].at # "none" =>
      (conn[c].at = "rejected" <=> (conn[c].key = NoKey /\ configured = NoKey))

(***************************************************************************)
(* C12: the FigmaService of a tool call carries the key of the calling     *)
(* client's session, or the startup key; a key given in the query of one   *)
(* client's /sse or /messages request never serves another client's call.  *)
(***************************************************************************)
C12_ToolCallUsesOwnSessionKey ==
  \A p \in KeyPostIds :
    (kpost[p].at = "done" /\ kpost[p].status = 202) =>
      /\ kpost[p].served \in {kpost[p].sessionKey, configured}
      /\ \A d \in Clients \ {kpost[p].client} : kpost[p].served # ClientKey(d)

(***************************************************************************)
(* C13: a log line that mentions a key shows at most the key's last 4      *)
(* characters, and none of the characters of a key of 4 characters or      *)
(* fewer; this for maskApiKey, getApiKey and both updateApiKey.            *)
(***************************************************************************)
C13_KeyMaskedInLogs ==
  maskLine.op # "none" =>
    LET revealed == Revealed(maskLine.shown)
    IN /\ Len(revealed) <= 4
       /\ revealed = SliceLast(maskLine.key, Len(revealed))
       /\ Len(maskLine.key) <= 4 => revealed = <<>>

(***************************************************************************)
(* C14: in stdio mode without a configured key startServer exits with      *)
(* code 1 before a server is constructed or a transport connected; a       *)
(* stdio transport is connected only with a non-empty key.                 *)
(***************************************************************************)
C14_StdioRequiresKey ==
  /\ (startPc \notin {"start", "configured"} /\ IsStdioMode(env)
        /\ config.figmaApiKey = NoKey) =>
       (startPc = "exited" /\ exitCode = 1 /\ ~built /\ transportUp = "none")
  /\ transportUp = "stdio" => (built /\ config.figmaApiKey # NoKey /\ exitCode = 0)

C14_Witness ==
  /\ startPc = "exited" /\ exitCode = 1
  /\ env.stdioFlag /\ env.cliKey = NoKey /\ env.envKey = NoKey

(***************************************************************************)
(* C15: getServerConfig takes each setting from the CLI argument, else     *)
(* from the environment variable, else the default (port 3333, empty       *)
(* key), and configSources names where each returned value came from:      *)
(* for the key "none" exactly when the returned key is empty.              *)
(***************************************************************************)
C15_ConfigPrecedenceAndSources ==
  startPc # "start" =>
    /\ config.figmaApiKey =
         (IF env.cliKey # NoKey THEN env.cliKey
          ELSE IF env.envKey # NoKey THEN env.envKey ELSE NoKey)
    /\ config.configSources.figmaApiKey =
         (IF env.cliKey # NoKey THEN "cli" ELSE IF env.envKey # NoKey THEN "env" ELSE "none")
    /\ (config.configSources.figmaApiKey = "none" <=> config.figmaApiKey = NoKey)
    /\ config.port =
         (IF env.cliPort.given THEN env.cliPort.value
          ELSE IF env.envPort # "" THEN ParseInt(env.envPort) ELSE DefaultPort)
    /\ config.configSources.port =
         (IF env.cliPort.given THEN "cli" ELSE IF env.envPort # "" THEN "env" ELSE "default")

C17_RenderedAtOwnFormatAndScale ==
  (iu.pc = "done" /\ ~iu.threw) =>
    LET imageRequests == {k \in 1..Len(iu.requests) : iu.requests[k].endpoint = "images"}
        fillRequests == {k \in 1..Len(iu.requests) : iu.requests[k].endpoint = "files/images"}
        with(id) == {k \in imageRequests :
                       \E j \in 1..Len(iu.requests[k].ids) : iu.requests[k].ids[j] = id}
    IN /\ \A i \in 1..Len(iu.raw) :
            iu.raw[i].imageRef = "" =>
              /\ Cardinality(with(iu.raw[i].nodeId)) = 1
              /\ \A k \in with(iu.raw[i].nodeId) :
                   /\ iu.requests[k].format =
                        (IF iu.raw[i].format = "" THEN "png" ELSE iu.raw[i].format)
                   /\ iu.requests[k].scale =
                        (IF iu.raw[i].scale.given THEN iu.raw[i].scale.value ELSE 1)
       /\ Cardinality(fillRequests) <= 1
       /\ fillRequests # {} => \E i \in 1..Len(iu.raw) : iu.raw[i].imageRef # ""

(***************************************************************************)
(* C18: a get_figma_data call issues exactly one document-fetch request:   *)
(* to the nodes endpoint with the given node id exactly when a node id     *)
(* was given, else to the whole-file endpoint; the request carries the     *)
(* depth argument whenever one was given.                                  *)
(***************************************************************************)
C18_OneFetchScopedWithDepth ==
  \A c \in CallIds :
    Done(c) =>
      /\ Len(httpLog[c]) = 1
      /\ (httpLog[c][1].path = "nodes" <=> args[c].nodeId.given)
      /\ args[c].nodeId.given => httpLog[c][1].ids = args[c].nodeId.value
      /\ args[c].depth.given => httpLog[c][1].depth = SomeDepth(args[c].depth.value)

C20_PostWithoutActiveSseRejected ==
  \A p \in KeyPostIds :
    (kpost[p].at # "new" /\ ~kpost[p].active) => kpost[p].status = 400

(***************************************************************************)
(* C21: with several SSE sessions on the one McpServer, the reply to a     *)
(* request posted on session S is delivered on the SSE stream of S and     *)
(* never on the stream of another session.                                 *)
(***************************************************************************)
C21_ReplyOnOwnStream ==
  \A r \in replies : r.stream \in {r.transport, NoTransport}

(***************************************************************************)
(* C22: every POST /messages gets exactly one HTTP response: none while    *)
(* its handler waits, and one when the handler has returned, with status   *)
(* 400 when no transport matched, 202 when the message was handled, 500    *)
(* when the hook or the handling threw; never a second one.                *)
(***************************************************************************)
C22_ExactlyOneResponse ==
  \A p \in PostIds :
    /\ post[p].sent <= 1
    /\ post[p].at \in {"new", "hook"} => post[p].sent = 0
    /\ post[p].at = "done" =>
         /\ post[p].sent = 1
         /\ post[p].status =
              (IF post[p].transport = NoTransport THEN 400
               ELSE IF post[p].failed THEN 500 ELSE 202)

C22_Witness ==
  \E p, q \in PostIds :
    /\ post[p].at = "done" /\ post[p].failed /\ post[p].status = 500
    /\ post[q].at = "done" /\ post[q].transport = NoTransport /\ post[q].status = 400

====
